---- MODULE Spec2Model ----
(***************************************************************************)
(* CanICA (nisl/decomposition/canica.py): the fit / transform protocol of  *)
(* one CanICA estimator.  The numerical primitives (linalg.svd,            *)
(* randomized_svd, fastica, stats.kurtosis) are modelled by what fit       *)
(* observes of them: whether they raise, and the kurtosis of each          *)
(* candidate map.  Arrays are modelled by the storage they live in (heap)  *)
(* and by the sequence of in-place operations that storage has received.   *)
(***************************************************************************)
EXTENDS Integers, Sequences, FiniteSets, TLC

\* ---------------------------------------------------------------- bounds
MaxN == 2          \* configured n_components ranges over 0..MaxN
MaxK == 4          \* the working count of the while loop is followed up to MaxK
MaxSubjects == 2   \* a fit call receives 1..MaxSubjects subjects
MaxFeatures == 2   \* subjects (and transform inputs) have 1..MaxFeatures features

\* ------------------------------------------------------- floating point
\* -np.inf: below every kurtosis.  nan: what stats.kurtosis gives for a
\* constant map; every comparison with it is false and argsort puts it last.
NegInf == -1000
NaN == 1000
KurtosisValues == {0, 1, NaN}

\* a > b on floats (kurtosis > kurtosis_thr)
Gt(a, b) == a # NaN /\ b # NaN /\ a > b

\* ------------------------------------------------------------ variables
VARIABLES
  self_n_components, self_mask, self_smooth, self_kurtosis_thr,
  self_maps_only, maps_,
  pc, input, heap, data, subject, subject_data, pcas,
  kurtosis_thr, n_components, ica_maps,
  fitted, result, steps, draws, lastRound, learned

vars == <<self_n_components, self_mask, self_smooth, self_kurtosis_thr,
          self_maps_only, maps_,
          pc, input, heap, data, subject, subject_data, pcas,
          kurtosis_thr, n_components, ica_maps,
          fitted, result, steps, draws, lastRound, learned>>

config == <<self_n_components, self_mask, self_smooth, self_kurtosis_thr,
            self_maps_only>>

\* ---------------------------------------------------------------- values
Unset == [set |-> FALSE, rows |-> 0, cols |-> 0, thresholded |-> FALSE]

\* kurtosis_thr=False is the constructor's default; any other value is a float
KurtosisThrChoices == {[isFalse |-> TRUE, value |-> 0], [isFalse |-> FALSE, value |-> 0]}

Spaces == {"caller", "copy", "smoothed"}
Refs == Spaces \X (1..MaxSubjects)
Raw == <<>>
NoRef == <<"none", 0>>

NoResult == [call |-> "none", status |-> "none", error |-> "none", at |-> "none", cols |-> 0]
Raised(call, error, at) ==
  [call |-> call, status |-> "raised", error |-> error, at |-> at, cols |-> 0]
Returned(call, cols) ==
  [call |-> call, status |-> "ok", error |-> "none", at |-> "none", cols |-> cols]

NoRound == [k |-> 0, passing |-> 0, decision |-> "none"]

\* ----------------------------------------------------------------- Init
Init ==
  /\ self_n_components \in 0..MaxN
  /\ self_smooth \in BOOLEAN
  /\ self_mask \in (IF self_smooth THEN {"None", "mask"} ELSE {"None"})
  /\ self_kurtosis_thr \in KurtosisThrChoices
  /\ self_maps_only \in BOOLEAN
  /\ maps_ = Unset
  /\ pc = "idle"
  /\ input = [kind |-> "list", m |-> 1, f |-> 1]
  /\ heap = [r \in Refs |-> Raw]
  /\ data = <<>>
  /\ subject = 0
  /\ subject_data = NoRef
  /\ pcas = 0
  /\ kurtosis_thr = NegInf
  /\ n_components = 0
  /\ ica_maps = <<>>
  /\ fitted = FALSE
  /\ result = NoResult
  /\ steps = {}
  /\ draws = {}
  /\ lastRound = NoRound
  /\ learned = <<>>

\* ------------------------------------------------------------------ fit
\* lines 91-96: data.copy() for an array, copy.deepcopy(data) for a list.
\* Either way every subject's values move to storage of fit's own.
ShallowCopyInput(kind, m) ==
  [i \in 1..m |-> IF kind = "list" THEN <<"caller", i>> ELSE <<"copy", i>>]

CopyInput(kind, m) == [i \in 1..m |-> <<"copy", i>>]

\* an in-place operation on the array stored at r
InPlace(h, r, op) == [h EXCEPT ![r] = Append(@, op)]

\* the exception leaves fit: nothing else of the model object changes
Raise(error, at) ==
  /\ pc' = "idle"
  /\ result' = Raised("fit", error, at)

\* lines 87-97
FitBegin ==
  /\ pc = "idle"
  /\ \E kind \in {"array", "list"}, m \in 1..MaxSubjects, f \in 1..MaxFeatures :
       /\ input' = [kind |-> kind, m |-> m, f |-> f]
       /\ data' = CopyInput(kind, m)
  /\ heap' = [r \in Refs |-> Raw]
  /\ pc' = "for"
  /\ subject' = 1
  /\ subject_data' = NoRef
  /\ pcas' = 0
  /\ kurtosis_thr' = NegInf
  /\ n_components' = 0
  /\ ica_maps' = <<>>
  /\ result' = NoResult
  /\ steps' = {<<"copy", 0>>}
  /\ draws' = {}
  /\ lastRound' = NoRound
  /\ learned' = <<>>
  /\ UNCHANGED <<config, maps_, fitted>>

\* line 102: assert self.mask is not None
AssertAlwaysPasses == TRUE

AssertPasses == self_mask # "None"

\* lines 99-100: the loop takes the next subject of data and centers it in place
SubjectCenter ==
  /\ pc = "for"
  /\ subject_data' = data[subject]
  /\ heap' = InPlace(heap, data[subject], "center")
  /\ steps' = steps \cup {<<"center", subject>>}
  /\ pc' = IF self_smooth THEN "smooth" ELSE "pca"
  /\ UNCHANGED <<config, maps_, input, data, subject, pcas, kurtosis_thr,
                 n_components, ica_maps, fitted, result, draws, lastRound, learned>>

\* lines 101-102: smoothing is asked for and there is no mask
AssertMaskFails ==
  /\ pc = "smooth"
  /\ ~AssertPasses
  /\ Raise("AssertionError", "assert")
  /\ UNCHANGED <<config, maps_, input, heap, data, subject, subject_data, pcas,
                 kurtosis_thr, n_components, ica_maps, fitted, steps, draws,
                 lastRound, learned>>

\* lines 101-107: smooth_from_mask(copy=False) smooths the subject's array in
\* place (lines 25-34), then fit copies the result and centers the copy
SubjectSmooth ==
  /\ pc = "smooth"
  /\ AssertPasses
  /\ LET smoothed == InPlace(heap, subject_data, "smooth")
         fresh == <<"smoothed", subject>>
     IN /\ heap' = [smoothed EXCEPT ![fresh] = Append(smoothed[subject_data], "center")]
        /\ subject_data' = fresh
  /\ steps' = steps \cup {<<"smooth", subject>>, <<"recenter", subject>>}
  /\ pc' = "pca"
  /\ UNCHANGED <<config, maps_, input, data, subject, pcas, kurtosis_thr,
                 n_components, ica_maps, fitted, result, draws, lastRound, learned>>

\* lines 109-117: divide by the standard deviation in place, SVD, keep the
\* first 2 * n_components left vectors, next subject
SubjectPCA ==
  /\ pc = "pca"
  /\ heap' = InPlace(heap, subject_data, "std")
  /\ steps' = steps \cup {<<"std", subject>>, <<"svd", subject>>}
  /\ pcas' = pcas + 1
  /\ subject_data' = NoRef
  /\ IF subject < input.m
       THEN pc' = "for" /\ subject' = subject + 1
       ELSE pc' = "thr" /\ subject' = subject
  /\ UNCHANGED <<config, maps_, input, data, kurtosis_thr, n_components,
                 ica_maps, fitted, result, draws, lastRound, learned>>

\* lines 109-114: linalg.svd raises
SubjectSVDFails ==
  /\ pc = "pca"
  /\ heap' = InPlace(heap, subject_data, "std")
  /\ steps' = steps \cup {<<"std", subject>>, <<"svd", subject>>}
  /\ Raise("LinAlgError", "svd")
  /\ UNCHANGED <<config, maps_, input, data, subject, subject_data, pcas,
                 kurtosis_thr, n_components, ica_maps, fitted, draws, lastRound,
                 learned>>

\* lines 119-123 with the default kurtosis_thr=False
KurtosisThrDefault ==
  /\ pc = "thr"
  /\ self_kurtosis_thr.isFalse
  /\ kurtosis_thr' = NegInf
  /\ n_components' = self_n_components
  /\ pc' = "while"
  /\ UNCHANGED <<config, maps_, input, heap, data, subject, subject_data, pcas,
                 ica_maps, fitted, result, steps, draws, lastRound, learned>>

\* lines 119-122 with a threshold configured: the right-hand side of
\* "kurtosis_thr = kurtosis_thr" reads the local name before it is bound
KurtosisThrUnbound ==
  /\ pc = "thr"
  /\ ~self_kurtosis_thr.isFalse
  /\ Raise("UnboundLocalError", "kurtosis_thr")
  /\ UNCHANGED <<config, maps_, input, heap, data, subject, subject_data, pcas,
                 kurtosis_thr, n_components, ica_maps, fitted, steps, draws,
                 lastRound, learned>>

\* ------------------------------------------------- the escalation loop
\* line 124: while n_components < 3 * n_components (both the local name)
LoopCond(k) == k < 3 * k

\* lines 125-132: a round at working count k yields k candidate maps, one
\* kurtosis each
Candidates(k) == [1..k -> KurtosisValues]

\* line 134-135: np.sum(kurtosis > kurtosis_thr)
PassCount(kurtosis, thr) == Cardinality({i \in DOMAIN kurtosis : Gt(kurtosis[i], thr)})

\* line 135: the test of the round, against the local n_components
Accepts(kurtosis, thr, k) == PassCount(kurtosis, thr) >= k

\* np.argsort(kurtosis): the index orders that list the candidates by
\* ascending kurtosis, nan last.  The default kind is quicksort, which is not
\* stable: candidates of equal kurtosis come in any order.
RECURSIVE Ascending(_, _)
Ascending(S, kurtosis) ==
  IF S = {} THEN {<<>>}
  ELSE UNION {{<<i>> \o rest : rest \in Ascending(S \ {i}, kurtosis)} :
                i \in {j \in S : \A l \in S : kurtosis[j] <= kurtosis[l]}}

Argsort(kurtosis) == Ascending(DOMAIN kurtosis, kurtosis)

Reversed(s) == [i \in 1..Len(s) |-> s[Len(s) + 1 - i]]

\* line 136: order = np.argsort(kurtosis)[::-1]
UnreversedOrder(kurtosis) == Argsort(kurtosis)

Order(kurtosis) == {Reversed(o) : o \in Argsort(kurtosis)}

\* line 137: ica_maps[order[:n_components]], the candidates kept, in order;
\* a row is the candidate it came from and that candidate's kurtosis
Kept(order, kurtosis, k) ==
  [r \in 1..k |-> [index |-> order[r], kurtosis |-> kurtosis[order[r]]]]

RoundSteps == {<<"randomized_svd", 0>>, <<"fastica", 0>>, <<"kurtosis", 0>>}

\* lines 125-126: randomized_svd is called without random_state and draws from
\* its own default; lines 129-130: fastica is handed fit's random_state
RandomizedSvdDraw == [step |-> "randomized_svd", source |-> "default"]
FasticaDraw == [step |-> "fastica", source |-> "random_state"]

\* lines 124-138: a round whose candidates pass the test; break
RoundAccept ==
  /\ pc = "while"
  /\ LoopCond(n_components)
  /\ \E kurtosis \in Candidates(n_components) :
       /\ Accepts(kurtosis, kurtosis_thr, n_components)
       /\ \E order \in Order(kurtosis) : ica_maps' = Kept(order, kurtosis, n_components)
       /\ lastRound' = [k |-> n_components, passing |-> PassCount(kurtosis, kurtosis_thr),
                       decision |-> "accept"]
  /\ steps' = steps \cup RoundSteps
  /\ draws' = draws \cup {RandomizedSvdDraw, FasticaDraw}
  /\ pc' = "threshold"
  /\ UNCHANGED <<config, maps_, input, heap, data, subject, subject_data, pcas,
                 kurtosis_thr, n_components, fitted, result, learned>>

\* lines 124-141: a round whose candidates fail the test; n_components += 1.
\* The working count has no bound in the code; it is followed up to MaxK.
RoundEscalate ==
  /\ pc = "while"
  /\ LoopCond(n_components)
  /\ n_components < MaxK
  /\ \E kurtosis \in Candidates(n_components) :
       /\ ~Accepts(kurtosis, kurtosis_thr, n_components)
       /\ lastRound' = [k |-> n_components, passing |-> PassCount(kurtosis, kurtosis_thr),
                       decision |-> "escalate"]
  /\ n_components' = n_components + 1
  /\ steps' = steps \cup RoundSteps
  /\ draws' = draws \cup {RandomizedSvdDraw, FasticaDraw}
  /\ UNCHANGED <<config, maps_, pc, input, heap, data, subject, subject_data, pcas,
                 kurtosis_thr, ica_maps, fitted, result, learned>>

\* lines 125-126: randomized_svd raises
GroupSVDFails ==
  /\ pc = "while"
  /\ LoopCond(n_components)
  /\ steps' = steps \cup {<<"randomized_svd", 0>>}
  /\ draws' = draws \cup {RandomizedSvdDraw}
  /\ Raise("LinAlgError", "randomized_svd")
  /\ UNCHANGED <<config, maps_, input, heap, data, subject, subject_data, pcas,
                 kurtosis_thr, n_components, ica_maps, fitted, lastRound, learned>>

\* lines 125-130: fastica raises
ICAFails ==
  /\ pc = "while"
  /\ LoopCond(n_components)
  /\ steps' = steps \cup {<<"randomized_svd", 0>>, <<"fastica", 0>>}
  /\ draws' = draws \cup {RandomizedSvdDraw, FasticaDraw}
  /\ Raise("ValueError", "fastica")
  /\ UNCHANGED <<config, maps_, input, heap, data, subject, subject_data, pcas,
                 kurtosis_thr, n_components, ica_maps, fitted, lastRound, learned>>

\* lines 124, 142-144: the loop condition is false; the else clause raises
RaiseNotEnough ==
  /\ pc = "while"
  /\ ~LoopCond(n_components)
  /\ Raise("ValueError", "kurtosis")
  /\ UNCHANGED <<config, maps_, input, heap, data, subject, subject_data, pcas,
                 kurtosis_thr, n_components, ica_maps, fitted, steps, draws,
                 lastRound, learned>>

\* ------------------------------------------------------------- the end
\* lines 145-152, 156: threshold the kept maps, store them in self.maps_,
\* and return self when maps_only
Finalize ==
  /\ pc = "threshold"
  /\ maps_' = [set |-> TRUE, rows |-> Len(ica_maps), cols |-> input.f,
               thresholded |-> TRUE]
  /\ steps' = steps \cup {<<"threshold", 0>>, <<"store", 0>>}
  /\ lastRound' = NoRound
  /\ ica_maps' = <<>>
  /\ IF self_maps_only
       THEN /\ pc' = "idle"
            /\ result' = Returned("fit", 0)
            /\ fitted' = TRUE
       ELSE /\ pc' = "learn"
            /\ UNCHANGED <<result, fitted>>
  /\ UNCHANGED <<config, input, heap, data, subject, subject_data, pcas,
                 kurtosis_thr, n_components, draws, learned>>

\* line 154: what learn_from_maps is handed: self (its maps_) and data
LearnCall == [maps |-> maps_, data |-> [i \in DOMAIN data |-> heap[data[i]]]]

\* lines 152-156: self.learn_from_maps(data) returns; return self.
\* learn_from_maps is BaseModel's; all fit sees of it is that it returns or
\* raises.
LearnFromMaps ==
  /\ pc = "learn"
  /\ learned' = Append(learned, LearnCall)
  /\ steps' = steps \cup {<<"learn_from_maps", 0>>}
  /\ pc' = "idle"
  /\ result' = Returned("fit", 0)
  /\ fitted' = TRUE
  /\ UNCHANGED <<config, maps_, input, heap, data, subject, subject_data, pcas,
                 kurtosis_thr, n_components, ica_maps, draws, lastRound>>

\* lines 152-154: self.learn_from_maps(data) raises
LearnFromMapsFails ==
  /\ pc = "learn"
  /\ learned' = Append(learned, LearnCall)
  /\ steps' = steps \cup {<<"learn_from_maps", 0>>}
  /\ Raise("Exception", "learn_from_maps")
  /\ UNCHANGED <<config, maps_, input, heap, data, subject, subject_data, pcas,
                 kurtosis_thr, n_components, ica_maps, fitted, draws, lastRound>>

\* ------------------------------------------------------------ transform
\* lines 158-163: np.dot(X, self.maps_.T) for X with fx features
TransformResult(fx) ==
  IF ~maps_.set THEN Raised("transform", "AttributeError", "maps_")
  ELSE IF fx # maps_.cols THEN Raised("transform", "ValueError", "dot")
  ELSE Returned("transform", maps_.rows)

Transform ==
  /\ pc = "idle"
  /\ \E fx \in 1..MaxFeatures : result' = TransformResult(fx)
  /\ UNCHANGED <<config, maps_, pc, input, heap, data, subject, subject_data, pcas,
                 kurtosis_thr, n_components, ica_maps, fitted, steps, draws,
                 lastRound, learned>>

Next ==
  \/ FitBegin
  \/ SubjectCenter
  \/ AssertMaskFails
  \/ SubjectSmooth
  \/ SubjectPCA
  \/ SubjectSVDFails
  \/ KurtosisThrDefault
  \/ KurtosisThrUnbound
  \/ RoundAccept
  \/ RoundEscalate
  \/ GroupSVDFails
  \/ ICAFails
  \/ RaiseNotEnough
  \/ Finalize
  \/ LearnFromMaps
  \/ LearnFromMapsFails
  \/ Transform

Spec == Init /\ [][Next]_vars

\* the first fit call on a freshly constructed estimator (and transform
\* calls around it)
FirstFitBegin == steps = {} /\ FitBegin

NextFirstFit ==
  \/ FirstFitBegin
  \/ SubjectCenter
  \/ AssertMaskFails
  \/ SubjectSmooth
  \/ SubjectPCA
  \/ SubjectSVDFails
  \/ KurtosisThrDefault
  \/ KurtosisThrUnbound
  \/ RoundAccept
  \/ RoundEscalate
  \/ GroupSVDFails
  \/ ICAFails
  \/ RaiseNotEnough
  \/ Finalize
  \/ LearnFromMaps
  \/ LearnFromMapsFails
  \/ Transform

SpecFirstFit == Init /\ [][NextFirstFit]_vars

\* ================================================================ claims
FitReturned == result.call = "fit" /\ result.status = "ok"
FitRaised == result.call = "fit" /\ result.status = "raised"

\* C1: whenever fit succeeds, maps_ has exactly the configured n_components
\* rows and as many columns as the subjects have features, whatever the
\* number of escalation rounds before the accepting one.
C1_FinalMapsShape ==
  FitReturned =>
    /\ maps_.set
    /\ maps_.rows = self_n_components
    /\ maps_.cols = input.f

\* C2: the escalation is bounded: the working count never passes the maximum
\* of the loop, three times the configured n_components; a fit whose rounds
\* keep failing raises the kurtosis error there instead of escalating on.
C2_EscalationBounded ==
  (pc # "idle" /\ self_n_components >= 1) => n_components <= 3 * self_n_components

\* C3: a round ends the loop successfully iff the number of candidates whose
\* kurtosis is above the threshold is >= the configured n_components (not the
\* working count); it then keeps n_components candidates; otherwise the
\* working count grows by exactly 1.
C3_AcceptanceTest ==
  lastRound.decision # "none" =>
    /\ (lastRound.decision = "accept") <=> (lastRound.passing >= self_n_components)
    /\ lastRound.decision = "accept" => Len(ica_maps) = self_n_components
    /\ lastRound.decision = "escalate" => n_components = lastRound.k + 1

\* C4: a fit that aborts in a decomposition primitive (subject SVD, randomized
\* SVD, ICA solver) or in the kurtosis escalation, on a model no fit has yet
\* completed on, leaves maps_ unset.
C4_FailedFitPublishesNothing ==
  (FitRaised /\ result.at \in {"svd", "randomized_svd", "fastica", "kurtosis"}
     /\ ~fitted) => maps_ = Unset

\* C5: a transform call succeeds only if an earlier fit call on the model
\* returned self; with no completed fit it fails for want of maps_.
C5_TransformNeedsFit ==
  result.call = "transform" =>
    /\ result.status = "ok" => fitted
    /\ ~fitted => (result.status = "raised" /\ result.error = "AttributeError")

\* C6: fit never mutates the caller's subject matrices: whatever the kind of
\* input, with or without smoothing, during and after fit, successful or
\* not, every caller-owned array has received no in-place operation.
C6_CallerDataUnchanged ==
  \A i \in 1..MaxSubjects : heap[<<"caller", i>>] = Raw

C6_Witness ==
  /\ FitReturned
  /\ input.kind = "list"
  /\ input.m = 2
  /\ self_smooth
  /\ heap[<<"copy", 1>>] = <<"center", "smooth">>
  /\ heap[<<"copy", 2>>] = <<"center", "smooth">>

DataSteps ==
  {"center", "smooth", "recenter", "std", "svd", "randomized_svd", "fastica",
   "kurtosis", "threshold", "store", "learn_from_maps"}

\* C7 as stated: with smoothing configured and mask None, fit fails and no
\* step on the data at all (centering included) ran before the failure,
\* and maps_ is not set.
C7_NoComputation ==
  (self_smooth /\ self_mask = "None" /\ FitRaised) =>
    /\ result.error = "AssertionError"
    /\ \A s \in steps : s[1] \notin DataSteps
    /\ maps_ = Unset

\* C7 amended: with smoothing configured and mask None, fit fails on the
\* assertion before any smoothing, standardization, subject SVD, group
\* aggregation or ICA solve; all that ran before is the private copy of the
\* input and the centering of the first subject's copy; maps_ is not set.
C7_AssertBeforeSmoothing ==
  (self_smooth /\ self_mask = "None") =>
    /\ steps \subseteq {<<"copy", 0>>, <<"center", 1>>}
    /\ result.call = "fit" => (result.status = "raised" /\ result.error = "AssertionError")
    /\ maps_ = Unset

C7_Witness ==
  /\ self_smooth
  /\ self_mask = "None"
  /\ FitRaised
  /\ result.error = "AssertionError"
  /\ steps = {<<"copy", 0>>, <<"center", 1>>}
  /\ heap[<<"copy", 1>>] = <<"center">>

\* C8: every randomized step of fit, in every round, draws from the random
\* source derived from the configured seed (so that two fits on the same
\* data give the same maps_).
C8_SeededDraws == \A d \in draws : d.source = "random_state"

\* C9 as stated: the kept maps are in descending order of kurtosis and,
\* among candidates of equal kurtosis, the lower candidate index comes first.
C9_StableTieBreak ==
  pc = "threshold" =>
    \A a, b \in 1..Len(ica_maps) :
      a < b => \/ Gt(ica_maps[a].kurtosis, ica_maps[b].kurtosis)
               \/ /\ ica_maps[a].kurtosis = ica_maps[b].kurtosis
                  /\ ica_maps[a].index < ica_maps[b].index

\* C9 amended: the kept maps are in descending order of kurtosis; among
\* candidates of equal kurtosis no rule puts the lower index first (their
\* order is the reverse of the order the ascending argsort gave them).
C9_DescendingKurtosis ==
  pc = "threshold" =>
    \A a, b \in 1..Len(ica_maps) :
      a < b => ica_maps[a].kurtosis >= ica_maps[b].kurtosis

C9_Witness ==
  /\ pc = "threshold"
  /\ Len(ica_maps) = 3
  /\ ica_maps[1].kurtosis > ica_maps[2].kurtosis
  /\ ica_maps[2].kurtosis = ica_maps[3].kurtosis
  /\ ica_maps[2].index > ica_maps[3].index

\* what the centered (and, when configured, smoothed) data of a subject is
CenteredForm == IF self_smooth THEN <<"center", "smooth">> ELSE <<"center">>

\* C10: a successful fit that is not maps_only calls learn_from_maps exactly
\* once, with the thresholded maps_ stored, and hands it every subject's
\* data centered (and smoothed when configured) but not standardized; a
\* maps_only fit never calls it.
C10_BackProjection ==
  FitReturned =>
    IF self_maps_only THEN learned = <<>>
    ELSE /\ Len(learned) = 1
         /\ learned[1].maps = maps_
         /\ learned[1].maps.thresholded
         /\ \A i \in DOMAIN learned[1].data : learned[1].data[i] = CenteredForm
====
